---- MODULE Spec2Model ----
(***************************************************************************)
(* Model of claude_hitl_template: the conversation orchestrator            *)
(* (query.py, run_conversation), the session actor (agent.py,              *)
(* ClaudeSessionActor) and the actor registry (agent.py, create_actor /    *)
(* get_actor / cleanup_actor).                                             *)
(*                                                                         *)
(* run_conversation is one sequential coroutine; pc is its position and    *)
(* every action is the code between two awaits on the outside world (the   *)
(* tracer, the actor, the registry).  What the outside world answers (a    *)
(* result, an ordinary exception, a RayActorError, a human response, the   *)
(* time that passed) is drawn with \E inside the action.                   *)
(***************************************************************************)
EXTENDS Integers, Sequences, FiniteSets, TLC

(***************************************************************************)
(* Program constants                                                       *)
(***************************************************************************)
MAX_MESSAGE_ITERATIONS == 50

max_retries == 1

timeout_seconds == 660

(***************************************************************************)
(* Values                                                                  *)
(***************************************************************************)
\* Python None for handles (actor references are 1, 2, ...)
None == 0

\* the empty dict {} and the None object, as functions on string keys
EmptyDict == [k \in {} |-> TRUE]

NoneObj == [none |-> TRUE]

Get(d, k, default) == IF k \in DOMAIN d THEN d[k] ELSE default

\* Python truthiness of None / a dict
Truthy(d) == d # NoneObj /\ DOMAIN d # {}

\* execution ids: "e1" is the id of the conversation modelled (supplied in the
\* inputs or generated by uuid4), "e2" any other id
ExecIds == {"e1", "e2"}

(***************************************************************************)
(* Text: strings are tuples of one-character strings, so that strip() and  *)
(* lower() are computed and not assumed.                                   *)
(***************************************************************************)
Whitespace == {" ", "\t", "\n"}

UpperCase == <<"A","B","C","D","E","F","G","H","I","J","K","L","M",
               "N","O","P","Q","R","S","T","U","V","W","X","Y","Z">>

LowerCase == <<"a","b","c","d","e","f","g","h","i","j","k","l","m",
               "n","o","p","q","r","s","t","u","v","w","x","y","z">>

LowerChar(c) ==
    IF \E i \in 1..Len(UpperCase) : UpperCase[i] = c
    THEN LowerCase[CHOOSE i \in 1..Len(UpperCase) : UpperCase[i] = c]
    ELSE c

\* mutant: the response is compared without lower-casing
LowerForgotten(s) == s

\* str.lower()
Lower(s) == [i \in 1..Len(s) |-> LowerChar(s[i])]

RECURSIVE LStrip(_)
LStrip(s) == IF s # <<>> /\ Head(s) \in Whitespace THEN LStrip(Tail(s)) ELSE s

RECURSIVE RStrip(_)
RStrip(s) ==
    IF s # <<>> /\ s[Len(s)] \in Whitespace
    THEN RStrip(SubSeq(s, 1, Len(s) - 1))
    ELSE s

\* mutant: only the leading whitespace is removed
StripLeftOnly(s) == LStrip(s)

\* str.strip()
Strip(s) == RStrip(LStrip(s))

(***************************************************************************)
(* agent.py, ClaudeSessionActor._collect_response: the classifier of one   *)
(* turn's event stream.  An event is [kind, payload]; kind "result" is the *)
(* ResultMessage, "system" a SystemMessage, "text"/"thinking"/"tool_use"/  *)
(* "tool_result" an AssistantMessage block of that class, "other" a        *)
(* message or block of no handled class.                                   *)
(***************************************************************************)
EventKinds == {"text", "thinking", "tool_use", "tool_result", "system", "result", "other"}

TurnResult(status, um, cm) ==
    [status |-> status, user_messages |-> um, context_messages |-> cm]

NoResult == TurnResult("none", <<>>, <<>>)

UserMessage(e) == [type |-> "text", content |-> e.payload]

ContextMessage(e) == [type |-> e.kind, content |-> e.payload]

Channels(um, cm) == [user_messages |-> um, context_messages |-> cm]

\* mutant: thinking blocks are shown to the human as text
ThinkingShownAsText(e, um, cm) ==
    IF e.kind = "system" THEN Channels(um, Append(cm, ContextMessage(e)))
    ELSE IF e.kind \in {"text", "thinking"} THEN Channels(Append(um, UserMessage(e)), cm)
    ELSE IF e.kind \in {"tool_use", "tool_result"}
         THEN Channels(um, Append(cm, ContextMessage(e)))
    ELSE Channels(um, cm)

\* mutant: new entries are put in front of the channel
ClassifyPrepending(e, um, cm) ==
    IF e.kind = "system" THEN Channels(um, <<ContextMessage(e)>> \o cm)
    ELSE IF e.kind = "text" THEN Channels(<<UserMessage(e)>> \o um, cm)
    ELSE IF e.kind \in {"thinking", "tool_use", "tool_result"}
         THEN Channels(um, <<ContextMessage(e)>> \o cm)
    ELSE Channels(um, cm)

\* L337-376: what one event that is not the ResultMessage adds to the channels
ClassifyEvent(e, um, cm) ==
    IF e.kind = "system" THEN Channels(um, Append(cm, ContextMessage(e)))
    ELSE IF e.kind = "text" THEN Channels(Append(um, UserMessage(e)), cm)
    ELSE IF e.kind \in {"thinking", "tool_use", "tool_result"}
         THEN Channels(um, Append(cm, ContextMessage(e)))
    ELSE Channels(um, cm)

RECURSIVE CollectFrom(_, _, _)
CollectFrom(stream, um, cm) ==
    IF stream = <<>> THEN TurnResult("ready", um, cm)
    ELSE LET e == Head(stream) IN
         IF e.kind = "result" THEN TurnResult("complete", um, cm)
         ELSE LET c == ClassifyEvent(e, um, cm) IN
              CollectFrom(Tail(stream), c.user_messages, c.context_messages)

collect_response(stream) == CollectFrom(stream, <<>>, <<>>)

Event(k, p) == [kind |-> k, payload |-> p]

\* the turns the actor's subprocess answers with in the orchestrator model
TurnStreams ==
    { <<Event("text", "a")>>,
      <<Event("thinking", "t"), Event("text", "b"), Event("result", "r"), Event("text", "c")>> }

(***************************************************************************)
(* Time.  An actor keeps idle = now - last_activity; what matters to the   *)
(* code is only idle > timeout_seconds, so idle saturates one second past  *)
(* the threshold.                                                          *)
(***************************************************************************)
IdleCap == timeout_seconds + 1

AddTime(idle, d) == IF idle + d > IdleCap THEN IdleCap ELSE idle + d

\* how long one actor call or one human-input pause may take
Durations == {0, timeout_seconds, timeout_seconds + 1}

(***************************************************************************)
(* agent.py, ClaudeSessionActor: the state of one actor and its methods as *)
(* operators.  alive is the Ray worker process: calls on a dead actor      *)
(* raise RayActorError before any method code runs.  open: the subprocess  *)
(* of self.client has been started by client.connect(None) and not been    *)
(* released by client.disconnect(); orphaned: a client whose subprocess was *)
(* open has been replaced in self.client without being released.           *)
(***************************************************************************)
\* __init__: client None, connected False, last_activity = now
NewActorState ==
    [alive |-> TRUE, client |-> "None", connected |-> FALSE, idle |-> 0,
     open |-> FALSE, orphaned |-> FALSE]

\* an actor whose worker process is gone has no state left
DeadActor ==
    [alive |-> FALSE, client |-> "None", connected |-> FALSE, idle |-> 0,
     open |-> FALSE, orphaned |-> FALSE]

\* sent: what the call passed on to the subprocess client
Reply(a, raised, value, sent) ==
    [actor |-> a, raised |-> raised, value |-> value, sent |-> sent]

\* mutant: the session is marked connected and active before it is opened
ConnectMarksEarly(a, fail, stream, d) ==
    LET a2 == [a EXCEPT !.client = "client", !.connected = TRUE,
                        !.idle = AddTime(0, d)] IN
    IF fail = "open" THEN Reply(a2, "Exception", NoResult, <<"open">>)
    ELSE IF fail \in {"send", "collect"}
    THEN Reply(a2, "Exception", NoResult, <<"open", "prompt">>)
    ELSE Reply(a2, "ok", collect_response(stream), <<"open", "prompt">>)

\* connect(prompt).  fail: the step that raises ("none", "open" =
\* client.connect(None), "send" = client.query(prompt), "collect" =
\* _collect_response); d: the time the collection took.
ActorConnect(a, fail, stream, d) ==
    LET a0 == [a EXCEPT !.client = "client", !.open = FALSE,
                        !.orphaned = a.orphaned \/ a.open]
        a1 == IF fail = "open" THEN a0 ELSE [a0 EXCEPT !.open = TRUE]
    IN
    IF fail = "open" THEN Reply(a1, "Exception", NoResult, <<"open">>)
    ELSE IF fail = "send" THEN Reply(a1, "Exception", NoResult, <<"open", "prompt">>)
    ELSE LET a2 == [a1 EXCEPT !.connected = TRUE, !.idle = AddTime(0, d)] IN
         IF fail = "collect" THEN Reply(a2, "Exception", NoResult, <<"open", "prompt">>)
         ELSE Reply(a2, "ok", collect_response(stream), <<"open", "prompt">>)

\* mutant: only the client is looked at, not the connected flag
QueryChecksClientOnly(a, fail, stream, d) ==
    IF a.client = "None" THEN Reply(a, "RuntimeError", NoResult, <<>>)
    ELSE LET a1 == [a EXCEPT !.idle = AddTime(0, d)] IN
         IF fail \in {"send", "collect"} THEN Reply(a1, "Exception", NoResult, <<"message">>)
         ELSE Reply(a1, "ok", collect_response(stream), <<"message">>)

\* query(message): RuntimeError when not connected; else the activity is
\* recorded before the message is sent
ActorQuery(a, fail, stream, d) ==
    IF a.client = "None" \/ ~a.connected THEN Reply(a, "RuntimeError", NoResult, <<>>)
    ELSE LET a1 == [a EXCEPT !.idle = AddTime(0, d)] IN
         IF fail \in {"send", "collect"} THEN Reply(a1, "Exception", NoResult, <<"message">>)
         ELSE Reply(a1, "ok", collect_response(stream), <<"message">>)

\* mutant: the poll never reports a timeout
TimeoutNever(a) == FALSE

\* mutant: the threshold itself counts as timed out
TimeoutAtThreshold(a) == a.idle >= timeout_seconds

\* check_timeout()
ActorCheckTimeout(a) == a.idle > timeout_seconds

\* disconnect(): the state it leaves
ActorDisconnect(a) ==
    [a EXCEPT !.client = "None", !.connected = FALSE, !.open = FALSE]

Disconnected == [status |-> "disconnected"]

\* mutant: what client.disconnect() raises is passed on to the caller
DisconnectPropagates(a, client_fails) ==
    IF a.client # "None" /\ client_fails
    THEN Reply([a EXCEPT !.client = "None", !.open = FALSE], "Exception",
               NoResult, <<"disconnect">>)
    ELSE Reply(ActorDisconnect(a), "ok", Disconnected,
               IF a.client # "None" THEN <<"disconnect">> ELSE <<>>)

\* disconnect() as a call.  client_fails: client.disconnect() raises, which
\* is printed and dropped; the client is released in the finally clause
DisconnectCall(a, client_fails) ==
    Reply(ActorDisconnect(a), "ok", Disconnected,
          IF a.client # "None" THEN <<"disconnect">> ELSE <<>>)

(***************************************************************************)
(* agent.py, the registry: registry[id] is the handle ray.get_actor finds  *)
(* under "claude-session-<id>" (None when it raises ValueError); actors is *)
(* the sequence of all actors ever created, a handle is an index into it.  *)
(***************************************************************************)
\* mutant: the name looked up does not depend on the id
get_actor_of_fixed_name(reg, execution_id) == reg["e1"]

get_actor(reg, execution_id) == reg[execution_id]

\* create_actor(execution_id): a detached actor named after the id; Ray
\* refuses a name that is taken (ValueError)
create_actor(reg, acts, execution_id) ==
    IF reg[execution_id] # None
    THEN [registry |-> reg, actors |-> acts, raised |-> TRUE, handle |-> None]
    ELSE [registry |-> [reg EXCEPT ![execution_id] = Len(acts) + 1],
          actors   |-> Append(acts, NewActorState),
          raised   |-> FALSE, handle |-> Len(acts) + 1]

\* mutant: the actor is disconnected but never killed
cleanup_without_kill(reg, acts, execution_id, lookup, kill) ==
    IF lookup = "error"
    THEN [registry |-> reg, actors |-> acts, raised |-> TRUE, kill |-> "none"]
    ELSE LET ref == reg[execution_id] IN
         IF ref = None
         THEN [registry |-> reg, actors |-> acts, raised |-> FALSE, kill |-> "none"]
         ELSE [registry |-> reg,
               actors   |-> [acts EXCEPT ![ref] =
                                [@ EXCEPT !.client = "None", !.connected = FALSE]],
               raised   |-> FALSE, kill |-> kill]

\* mutant: the lookup's ValueError for an unknown name is not caught
cleanup_raising_when_absent(reg, acts, execution_id, lookup, kill) ==
    IF lookup = "error" \/ reg[execution_id] = None
    THEN [registry |-> reg, actors |-> acts, raised |-> TRUE, kill |-> "none"]
    ELSE IF kill = "ok"
         THEN [registry |-> [reg EXCEPT ![execution_id] = None],
               actors   |-> [acts EXCEPT ![reg[execution_id]] = DeadActor],
               raised   |-> FALSE, kill |-> "ok"]
         ELSE [registry |-> reg,
               actors   |-> [acts EXCEPT ![reg[execution_id]] = ActorDisconnect(@)],
               raised   |-> FALSE, kill |-> "failed"]

\* mutant: disconnect and kill share one try block, a failed disconnect
\* skips the kill
cleanup_in_one_try(reg, acts, execution_id, lookup, kill) ==
    IF lookup = "error"
    THEN [registry |-> reg, actors |-> acts, raised |-> TRUE, kill |-> "none"]
    ELSE IF reg[execution_id] = None \/ ~acts[reg[execution_id]].alive
    THEN [registry |-> reg, actors |-> acts, raised |-> FALSE, kill |-> "none"]
    ELSE IF kill = "ok"
         THEN [registry |-> [reg EXCEPT ![execution_id] = None],
               actors   |-> [acts EXCEPT ![reg[execution_id]] = DeadActor],
               raised   |-> FALSE, kill |-> "ok"]
         ELSE [registry |-> reg,
               actors   |-> [acts EXCEPT ![reg[execution_id]] = ActorDisconnect(@)],
               raised   |-> FALSE, kill |-> "failed"]

\* cleanup_actor(execution_id).  lookup = "error": ray.get_actor raises
\* something else than ValueError, which get_actor does not catch;
\* actor.disconnect.remote() fails when the actor is dead; kill: whether
\* ray.kill completes.
cleanup_actor(reg, acts, execution_id, lookup, kill) ==
    IF lookup = "error"
    THEN [registry |-> reg, actors |-> acts, raised |-> TRUE, kill |-> "none"]
    ELSE LET ref == get_actor(reg, execution_id) IN
         IF ref = None
         THEN [registry |-> reg, actors |-> acts, raised |-> FALSE, kill |-> "none"]
         ELSE LET a  == acts[ref]
                  a1 == IF a.alive THEN ActorDisconnect(a) ELSE a
              IN IF kill = "ok"
                 THEN [registry |-> [reg EXCEPT ![execution_id] = None],
                       actors   |-> [acts EXCEPT ![ref] = DeadActor],
                       raised   |-> FALSE, kill |-> "ok"]
                 ELSE [registry |-> reg,
                       actors   |-> [acts EXCEPT ![ref] = a1],
                       raised   |-> FALSE, kill |-> "failed"]

(***************************************************************************)
(* config.py, load_kodosumi_config: COMPLETION_MODE is lower-cased and     *)
(* taken only when it is one of the two modes; the default is              *)
(* auto-complete.                                                          *)
(***************************************************************************)
EnvModes == {"", "auto-complete", "continuous", "Continuous", "manual"}

LowerMode(s) == IF s = "Continuous" THEN "continuous" ELSE s

\* DEFAULT_CONFIG["max_turns"]
default_max_turns == 50

\* the values of the MAX_TURNS environment variable: unset, a number, no
\* number
EnvTurns == {"", "2", "x"}

\* int(os.getenv("MAX_TURNS", "50")), which raises ValueError for "x"
ParseTurns(s) ==
    IF s = "" THEN [raised |-> FALSE, value |-> 50]
    ELSE IF s = "2" THEN [raised |-> FALSE, value |-> 2]
    ELSE [raised |-> TRUE, value |-> 0]

load_kodosumi_config(env_mode, env_turns) ==
    [completion_mode |->
        IF LowerMode(env_mode) \in {"auto-complete", "continuous"}
        THEN LowerMode(env_mode) ELSE "auto-complete",
     max_turns |->
        IF ParseTurns(env_turns).raised THEN default_max_turns
        ELSE ParseTurns(env_turns).value]

(***************************************************************************)
(* query.py / results.py: the values run_conversation returns              *)
(***************************************************************************)
NoReturn == [kind |-> "none", reason |-> "", iterations |-> 0, messages |-> <<>>]

\* _build_conversation_summary(iterations, reason)
Summary(iterations, reason) ==
    [kind |-> "summary", reason |-> reason, iterations |-> iterations, messages |-> <<>>]

IsText(m) == m.type = "text"

\* build_final_result(messages, files, iteration, "Task completed"): the
\* body is made of the text messages
build_final_result(messages, iteration) ==
    [kind |-> "final", reason |-> "Task completed", iterations |-> iteration,
     messages |-> SelectSeq(messages, IsText)]

(***************************************************************************)
(* query.py, the human-input boundary                                      *)
(***************************************************************************)
\* claude_conversation_lease(inputs): the registered lease handler
claude_conversation_lease(form) ==
    LET inputs == IF form = NoneObj THEN EmptyDict ELSE form IN
    [response |-> Strip(Get(inputs, "response", <<>>)), cancelled |-> FALSE]

\* what the human may type into the form
FormTexts ==
    { <<>>, <<" ">>,
      <<"d","o","n","e">>, <<" ","D","o","n","e","\n">>,
      <<"E","X","I","T">>, <<"S","t","o","p"," ">>,
      <<" ","h","i"," ">> }

\* what tracer.lock may return: nothing, an empty object, a cancellation,
\* the lease handler's answer, or a bare {response} object
LockReturns ==
    {NoneObj, EmptyDict, [cancelled |-> TRUE]}
    \cup {claude_conversation_lease(NoneObj), claude_conversation_lease(EmptyDict)}
    \cup {claude_conversation_lease([response |-> t]) : t \in FormTexts}
    \cup {[response |-> t] : t \in {<<"\t","Q","U","I","T"," ">>, <<" ","\n">>, <<"\t","h","i","\n">>}}

TerminationKeywords ==
    { <<"d","o","n","e">>, <<"e","x","i","t">>, <<"q","u","i","t">>, <<"s","t","o","p">> }

(***************************************************************************)
(* State                                                                   *)
(***************************************************************************)
VARIABLES
    environ,          \* os.environ of the process: MAX_TURNS
    pc,               \* position of run_conversation
    config,           \* config = load_kodosumi_config()
    execution_id,     \* the registry key of this conversation
    retry_count,
    actor,            \* the handle run_conversation holds
    is_first_connect,
    result,           \* the TurnResult of the most recent connect / query
    iteration,
    user_input,       \* what tracer.lock returned
    response_text,
    ret,              \* the value given to the return statement
    in_flight,        \* the actor calls sent by run_conversation, not yet back
    registry,         \* execution id -> handle of the named actor, or None
    actors,           \* handle -> state of that ClaudeSessionActor
    calls,            \* history: how many times each operation was issued,
                      \* the TurnResults received in this attempt, and
                      \* whether the latest of them is still to be shown
                      \* or used
    last_kill,        \* history: outcome of ray.kill in the final teardown
    last_prompt,      \* history: the prompt of the latest connect call
    op,               \* the latest call made on an actor or on the registry
    created,          \* history: the ids created and not destroyed since
    receive,          \* _collect_response: the state of its loop
    runs              \* run_conversation invocations running side by side:
                      \* the position and the locals of each

locals == <<config, execution_id, retry_count, actor, is_first_connect,
            result, iteration, user_input, response_text>>

world == <<registry, actors>>

hist == <<calls, last_kill, last_prompt>>

\* the variables of the specifications of one actor, of the registry and of
\* the classifier; run_conversation leaves them alone
unit == <<op, created, receive, runs>>

vars == <<environ, pc, locals, ret, in_flight, world, hist, unit>>

NoCall == [name |-> "none", arg |-> "none", env |-> "none", raised |-> "ok",
           value |-> "none"]

NoOp == [name |-> "none", arg |-> "none", env |-> "none", raised |-> "ok",
         value |-> "none", sent |-> <<>>, before |-> "none", prev |-> NoCall]

NotReceiving ==
    [stream |-> <<>>, pos |-> 0, user_messages |-> <<>>, context_messages |-> <<>>,
     status |-> "none"]

\* an actor that may already be registered under an execution id the caller
\* supplies (a session left by an earlier run whose teardown did not remove it)
PreExisting ==
    [alive |-> TRUE, client |-> "client", connected |-> TRUE, idle |-> 0,
     open |-> TRUE, orphaned |-> FALSE]

Start ==
    /\ pc = "start"
    /\ config = load_kodosumi_config("", "")
    /\ execution_id = "e1"
    /\ retry_count = 0
    /\ actor = None
    /\ is_first_connect = FALSE
    /\ result = NoResult
    /\ iteration = 0
    /\ user_input = NoneObj
    /\ response_text = <<>>
    /\ ret = NoReturn
    /\ in_flight = <<>>
    /\ registry = [e \in ExecIds |-> None]
    /\ actors = <<>>
    /\ calls = [connect |-> 0, lock |-> 0, query |-> 0, cleanup |-> 0,
                received |-> 0, unseen |-> FALSE]
    /\ last_kill = "none"
    /\ last_prompt = "none"
    /\ op = NoOp
    /\ created = {}
    /\ receive = NotReceiving
    /\ runs = <<>>

\* MAX_TURNS is not set
Init ==
    /\ Start
    /\ environ = [MAX_TURNS |-> ""]

(***************************************************************************)
(* Pieces shared by the actions                                            *)
(***************************************************************************)
\* mutant: a complete turn ends the conversation in every mode
CompleteAlwaysEnds(r, cfg) == r.status = "complete"

\* L372 and L395: the completion policy
AutoComplete(r, cfg) == r.status = "complete" /\ cfg.completion_mode = "auto-complete"

\* mutant: the loop guard off by one
LoopContinuesInclusive(i) == i <= MAX_MESSAGE_ITERATIONS

\* the guard of the conversation loop, L385
LoopContinues(i) == i < MAX_MESSAGE_ITERATIONS

\* mutants: the retry bound off by one, either way
MayRetryOnceMore(rc) == rc <= max_retries + 1

MayRetryNever(rc) == rc < max_retries

MayRetryAlways(rc) == rc >= 0

\* the guard of the retry, L339 and L454
MayRetry(rc) == rc <= max_retries

\* an exception that is not a RayActorError leaves the inner try
Raise == pc' = "except_error"

\* mutant: the loop spins at its head, neither counting nor returning
LoopHeadSpinning(i) ==
    /\ iteration' = i
    /\ pc' = "loop"
    /\ ret' = ret

\* L385-386 and L443-446 and L467-470: enter the next iteration of the
\* conversation loop, or leave it
LoopHead(i) ==
    IF LoopContinues(i)
    THEN /\ iteration' = i + 1
         /\ pc' = "check_timeout"
         /\ ret' = ret
    ELSE /\ iteration' = i
         /\ pc' = "finally"
         /\ ret' = IF i >= MAX_MESSAGE_ITERATIONS
                   THEN Summary(i, "Maximum iteration limit reached (50)")
                   ELSE Summary(i, "Conversation completed")

\* a call on the actor raises RayActorError: the worker process is gone;
\* named = FALSE when its name has left the registry with it
Crash(named) ==
    /\ actors' = [actors EXCEPT ![actor] = DeadActor]
    /\ registry' = IF named \/ registry[execution_id] # actor THEN registry
                   ELSE [registry EXCEPT ![execution_id] = None]
    /\ pc' = "except_crash"

\* L374-381 and L397-404: _finalize_job and the return of its result
Finalize(i) ==
    \/ /\ ret' = build_final_result(result.user_messages, i)
       /\ pc' = "finally"
    \/ /\ Raise
       /\ ret' = ret

(***************************************************************************)
(* run_conversation, L295-330: configuration and inputs.  inputs["prompt"] *)
(* and inputs["timestamp"] are read outside every try.                     *)
(***************************************************************************)
InputKeys ==
    { {"prompt", "timestamp"}, {"prompt", "timestamp", "execution_id"},
      {"timestamp"}, {"prompt"} }

ReadInputs ==
    /\ pc = "start"
    /\ UNCHANGED unit
    /\ UNCHANGED environ
    /\ UNCHANGED in_flight
    /\ \E keys \in InputKeys, env_mode \in EnvModes :
        /\ config' = load_kodosumi_config(env_mode, environ.MAX_TURNS)
        /\ execution_id' = "e1"
        /\ pc' = IF {"prompt", "timestamp"} \subseteq keys THEN "init_notice" ELSE "raised"
        /\ \/ UNCHANGED world
           \/ \* the supplied id is the name of a session that is still there
              /\ "execution_id" \in keys
              /\ registry' = [registry EXCEPT !["e1"] = 1]
              /\ actors' = <<PreExisting>>
    /\ UNCHANGED <<retry_count, actor, is_first_connect, result, iteration,
                   user_input, response_text, ret, hist>>

\* L332-336: the initial status notice, then retry_count = 0
InitNotice ==
    /\ pc = "init_notice"
    /\ UNCHANGED unit
    /\ UNCHANGED environ
    /\ UNCHANGED in_flight
    /\ \/ /\ pc' = "lookup"
          /\ retry_count' = 0
       \/ /\ pc' = "raised"
          /\ retry_count' = retry_count
    /\ UNCHANGED <<config, execution_id, actor, is_first_connect, result, iteration,
                   user_input, response_text, ret, world, hist>>

(***************************************************************************)
(* L339-351: the head of the retry loop, lookup-or-create                  *)
(***************************************************************************)
LookupOrCreate ==
    /\ pc = "lookup"
    /\ UNCHANGED unit
    /\ UNCHANGED environ
    /\ UNCHANGED in_flight
    /\ UNCHANGED <<config, execution_id, retry_count, result, iteration,
                   user_input, response_text, last_kill, last_prompt>>
    /\ IF ~MayRetry(retry_count)
       THEN \* the while condition fails: L467-470
            /\ ret' = Summary(iteration, "Conversation completed")
            /\ pc' = "finally"
            /\ UNCHANGED <<actor, is_first_connect, world, calls>>
       ELSE /\ ret' = ret
            /\ calls' = [calls EXCEPT !.received = 0, !.unseen = FALSE]  \* a new attempt
            /\ \/ \* ray.get_actor, the notice or create_actor raises
                  /\ Raise
                  /\ UNCHANGED <<actor, is_first_connect, world>>
               \/ /\ get_actor(registry, execution_id) = None
                  /\ actors' = Append(actors, NewActorState)
                  /\ registry' = [registry EXCEPT ![execution_id] = Len(actors) + 1]
                  /\ actor' = Len(actors) + 1
                  /\ is_first_connect' = TRUE
                  /\ pc' = "connect"
               \/ /\ get_actor(registry, execution_id) # None
                  /\ actor' = get_actor(registry, execution_id)
                  /\ is_first_connect' = FALSE
                  /\ pc' = "connect"
                  /\ UNCHANGED world

\* a TurnResult has come back from connect or query (L356-360, L441)
Received == [calls EXCEPT !.received = @ + 1, !.unseen = TRUE]

\* the latest TurnResult has gone into the final result (L374-381, L397-404)
Used == [calls EXCEPT !.unseen = FALSE]

(***************************************************************************)
(* L355-356, L359-360, L366-367, L389, L440-441: the notice that precedes  *)
(* an actor call, and the call being sent (actor.x.remote(...)).  Every    *)
(* one of them is awaited: the coroutine stays where it is until the call  *)
(* has returned or failed, which is the action of that position below.     *)
(***************************************************************************)
Awaited == [connect |-> "connect", metadata |-> "get_metadata",
            check_timeout |-> "check_timeout", query |-> "query"]

Send ==
    /\ pc' = pc
    /\ in_flight' = Append(in_flight, Awaited[pc])
    /\ calls' = IF pc \in {"connect", "query"}
                THEN [calls EXCEPT ![pc] = @ + 1] ELSE calls
    /\ last_prompt' = IF pc # "connect" THEN last_prompt
                      ELSE IF is_first_connect THEN "prompt" ELSE "reconnect"

\* a call sent while the one before it is still running
IssueWithoutAwait ==
    /\ pc \in DOMAIN Awaited
    /\ Len(in_flight) < 2
    /\ UNCHANGED unit
    /\ UNCHANGED environ
    /\ UNCHANGED <<locals, ret, world, last_kill>>
    /\ Send

Issue ==
    /\ pc \in DOMAIN Awaited
    /\ in_flight = <<>>
    /\ UNCHANGED unit
    /\ UNCHANGED environ
    /\ UNCHANGED <<locals, ret, world, last_kill>>
    /\ \/ Send
       \/ \* the notice before the call raises; the poll has none
          /\ pc # "check_timeout"
          /\ Raise
          /\ UNCHANGED <<in_flight, calls, last_prompt>>

(***************************************************************************)
(* L353-362: connect or reconnect, once the call is back                   *)
(***************************************************************************)
Connect ==
    /\ pc = "connect"
    /\ in_flight = <<"connect">>
    /\ in_flight' = <<>>
    /\ UNCHANGED unit
    /\ UNCHANGED environ
    /\ UNCHANGED <<config, execution_id, retry_count, actor, is_first_connect,
                   iteration, user_input, response_text, ret, last_kill,
                   last_prompt>>
    /\ IF ~actors[actor].alive
       THEN /\ pc' = "except_crash"
            /\ UNCHANGED <<result, world, calls>>
       ELSE \/ \E named \in BOOLEAN : Crash(named) /\ UNCHANGED <<result, calls>>
            \/ \E fail \in {"open", "send", "collect"} :
                  /\ actors' = [actors EXCEPT ![actor] =
                          ActorConnect(actors[actor], fail, <<>>, 0).actor]
                  /\ Raise
                  /\ UNCHANGED <<result, registry, calls>>
            \/ \E stream \in TurnStreams, d \in Durations :
                  LET r == ActorConnect(actors[actor], "none", stream, d) IN
                  /\ actors' = [actors EXCEPT ![actor] = r.actor]
                  /\ result' = r.value
                  /\ calls' = Received
                  /\ registry' = registry
                  /\ \/ pc' = IF is_first_connect THEN "metadata" ELSE "connected"
                     \/ Raise  \* the "Connected" notice raises

\* L364-369: the agent metadata, on a first connect only
GetMetadata ==
    /\ pc = "metadata"
    /\ in_flight = <<"get_metadata">>
    /\ in_flight' = <<>>
    /\ UNCHANGED unit
    /\ UNCHANGED environ
    /\ UNCHANGED <<locals, ret, hist>>
    /\ \/ Raise /\ UNCHANGED world
       \/ IF ~actors[actor].alive
          THEN pc' = "except_crash" /\ UNCHANGED world
          ELSE \/ \E named \in BOOLEAN : Crash(named)
               \/ pc' = "connected" /\ UNCHANGED world

\* L371-386: completion of the connect turn, else the first iteration
CheckInitialCompletion ==
    /\ pc = "connected"
    /\ UNCHANGED unit
    /\ UNCHANGED environ
    /\ UNCHANGED in_flight
    /\ UNCHANGED <<config, execution_id, retry_count, actor, is_first_connect,
                   result, user_input, response_text, world, last_kill,
                   last_prompt>>
    /\ IF AutoComplete(result, config)
       THEN Finalize(1) /\ iteration' = iteration
       ELSE LoopHead(0)
    /\ calls' = IF ret'.kind = "final" THEN Used ELSE calls

(***************************************************************************)
(* L388-411: one iteration up to the pause: the timeout poll, completion   *)
(* of the latest turn, the context messages                                *)
(***************************************************************************)
CheckTimeout ==
    /\ pc = "check_timeout"
    /\ in_flight = <<"check_timeout">>
    /\ in_flight' = <<>>
    /\ UNCHANGED unit
    /\ UNCHANGED environ
    /\ UNCHANGED <<locals, last_kill, last_prompt>>
    /\ IF ~actors[actor].alive
       THEN pc' = "except_crash" /\ UNCHANGED <<ret, world>>
       ELSE \/ \E named \in BOOLEAN : Crash(named) /\ ret' = ret
            \/ Raise /\ UNCHANGED <<ret, world>>
            \/ /\ UNCHANGED world
               /\ IF ActorCheckTimeout(actors[actor])
                  THEN /\ ret' = Summary(iteration, "Session timed out (11 minutes idle)")
                       /\ pc' = "finally"
                  ELSE IF AutoComplete(result, config)
                  THEN Finalize(iteration)
                  ELSE /\ ret' = ret
                       /\ \/ pc' = "lock"
                          \/ Raise  \* _display_context_messages raises
    /\ calls' = IF ret'.kind = "final" THEN Used ELSE calls

\* mutant: the pause is given both channels of the turn
LockPayloadWithContext ==
    [iteration |-> iteration,
     messages |-> result.user_messages \o result.context_messages,
     status |-> result.status]

\* L414-421: what tracer.lock is given at the pause
LockPayload ==
    [iteration |-> iteration, messages |-> result.user_messages,
     status |-> result.status]

\* mutant: the session is released while the human is asked
LockReleasingSession ==
    /\ pc = "lock"
    /\ UNCHANGED unit
    /\ UNCHANGED environ
    /\ UNCHANGED in_flight
    /\ UNCHANGED <<config, execution_id, retry_count, actor, is_first_connect,
                   result, iteration, registry, last_kill, last_prompt>>
    /\ calls' = [calls EXCEPT !.lock = @ + 1, !.unseen = FALSE]
    /\ \E d \in Durations :
          actors' = [actors EXCEPT ![actor] = ActorDisconnect([@ EXCEPT !.idle = AddTime(@, d)])]
    /\ \/ \* tracer.lock raises
          /\ Raise
          /\ UNCHANGED <<user_input, response_text, ret>>
       \/ \E ui \in LockReturns :
          /\ user_input' = ui
          /\ IF ~Truthy(ui) \/ Get(ui, "cancelled", FALSE)
             THEN /\ ret' = Summary(iteration, "Conversation ended by user")
                  /\ pc' = "finally"
                  /\ response_text' = response_text
             ELSE LET text == Strip(Get(ui, "response", <<>>)) IN
                  /\ response_text' = text
                  /\ IF Lower(text) \in TerminationKeywords
                     THEN /\ ret' = Summary(iteration, "Conversation completed successfully")
                          /\ pc' = "finally"
                     ELSE IF text = <<>>
                     THEN /\ ret' = Summary(iteration, "Empty response - conversation ended")
                          /\ pc' = "finally"
                     ELSE /\ ret' = ret
                          /\ pc' = "query"

(***************************************************************************)
(* L413-437: the human-input pause and what its answer leads to.  The      *)
(* pause lasts d seconds of the actor's idle time.                         *)
(***************************************************************************)
Lock ==
    /\ pc = "lock"
    /\ UNCHANGED unit
    /\ UNCHANGED environ
    /\ UNCHANGED in_flight
    /\ UNCHANGED <<config, execution_id, retry_count, actor, is_first_connect,
                   result, iteration, registry, last_kill, last_prompt>>
    /\ calls' = [calls EXCEPT !.lock = @ + 1, !.unseen = FALSE]
    /\ \E d \in Durations :
          actors' = [actors EXCEPT ![actor].idle = AddTime(@, d)]
    /\ \/ \* tracer.lock raises
          /\ Raise
          /\ UNCHANGED <<user_input, response_text, ret>>
       \/ \E ui \in LockReturns :
          /\ user_input' = ui
          /\ IF ~Truthy(ui) \/ Get(ui, "cancelled", FALSE)
             THEN /\ ret' = Summary(iteration, "Conversation ended by user")
                  /\ pc' = "finally"
                  /\ response_text' = response_text
             ELSE LET text == Strip(Get(ui, "response", <<>>)) IN
                  /\ response_text' = text
                  /\ IF Lower(text) \in TerminationKeywords
                     THEN /\ ret' = Summary(iteration, "Conversation completed successfully")
                          /\ pc' = "finally"
                     ELSE IF text = <<>>
                     THEN /\ ret' = Summary(iteration, "Empty response - conversation ended")
                          /\ pc' = "finally"
                     ELSE /\ ret' = ret
                          /\ pc' = "query"

(***************************************************************************)
(* L439-446: forward the response, then the loop head                      *)
(***************************************************************************)
Query ==
    /\ pc = "query"
    /\ in_flight = <<"query">>
    /\ in_flight' = <<>>
    /\ UNCHANGED unit
    /\ UNCHANGED environ
    /\ UNCHANGED <<config, execution_id, retry_count, actor, is_first_connect,
                   user_input, response_text, last_kill, last_prompt>>
    /\ IF ~actors[actor].alive
       THEN /\ pc' = "except_crash"
            /\ UNCHANGED <<result, iteration, ret, world, calls>>
       ELSE \/ \E named \in BOOLEAN :
                  Crash(named) /\ UNCHANGED <<result, iteration, ret, calls>>
            \/ \E fail \in {"send", "collect"}, d \in Durations :
                  /\ actors' = [actors EXCEPT ![actor] =
                          ActorQuery(actors[actor], fail, <<>>, d).actor]
                  /\ Raise
                  /\ UNCHANGED <<result, iteration, ret, registry, calls>>
            \/ \E stream \in TurnStreams, d \in Durations :
                  LET r == ActorQuery(actors[actor], "none", stream, d) IN
                  /\ actors' = [actors EXCEPT ![actor] = r.actor]
                  /\ registry' = registry
                  /\ IF r.raised = "ok"
                     THEN /\ result' = r.value
                          /\ calls' = Received
                          /\ LoopHead(iteration)
                     ELSE Raise /\ UNCHANGED <<result, iteration, ret, calls>>

(***************************************************************************)
(* L451-465: the RayActorError handler                                     *)
(***************************************************************************)
ExceptCrash ==
    /\ pc = "except_crash"
    /\ UNCHANGED unit
    /\ UNCHANGED environ
    /\ UNCHANGED in_flight
    /\ UNCHANGED <<config, execution_id, actor, is_first_connect, result, iteration,
                   user_input, response_text, last_prompt>>
    /\ retry_count' = retry_count + 1
    /\ IF MayRetry(retry_count + 1)
       THEN /\ ret' = ret
            /\ \/ \* the "Retrying" notice raises: to the outer handler
                  /\ Raise
                  /\ UNCHANGED <<world, calls, last_kill>>
               \/ \E lookup \in {"ok", "error"}, kill \in {"ok", "failed"} :
                     LET c == cleanup_actor(registry, actors, execution_id,
                                            lookup, kill) IN
                     /\ registry' = c.registry
                     /\ actors' = c.actors
                     /\ last_kill' = last_kill
                     /\ calls' = [calls EXCEPT !.cleanup = @ + 1]
                     /\ pc' = "lookup"  \* "except: pass", then the while loop
       ELSE /\ ret' = Summary(0, "Session failed after retries")
            /\ pc' = "finally"
            /\ UNCHANGED <<world, calls, last_kill>>

\* mutant: an ordinary error is retried like a crash of the actor
ExceptErrorRetries ==
    /\ pc = "except_error"
    /\ UNCHANGED unit
    /\ UNCHANGED environ
    /\ UNCHANGED in_flight
    /\ retry_count' = retry_count + 1
    /\ IF MayRetry(retry_count + 1)
       THEN pc' = "lookup" /\ ret' = ret
       ELSE pc' = "finally" /\ ret' = Summary(0, "Error")
    /\ UNCHANGED <<config, execution_id, actor, is_first_connect, result,
                   iteration, user_input, response_text, world, hist>>

\* L472-475: the outermost handler
ExceptError ==
    /\ pc = "except_error"
    /\ UNCHANGED unit
    /\ UNCHANGED environ
    /\ UNCHANGED in_flight
    /\ ret' = Summary(0, "Error")
    /\ pc' = "finally"
    /\ UNCHANGED <<locals, world, hist>>

\* mutant: the result is returned without the final teardown
FinallyWithoutCleanup ==
    /\ pc = "finally"
    /\ UNCHANGED unit
    /\ UNCHANGED environ
    /\ UNCHANGED in_flight
    /\ pc' = "done"
    /\ UNCHANGED <<locals, ret, world, hist>>

\* L477-479: the final teardown; what it raises replaces the return value
Finally ==
    /\ pc = "finally"
    /\ UNCHANGED unit
    /\ UNCHANGED environ
    /\ UNCHANGED in_flight
    /\ UNCHANGED <<locals, ret, last_prompt>>
    /\ calls' = [calls EXCEPT !.cleanup = @ + 1]
    /\ \E lookup \in {"ok", "error"}, kill \in {"ok", "failed"} :
          LET c == cleanup_actor(registry, actors, execution_id, lookup, kill) IN
          /\ registry' = c.registry
          /\ actors' = c.actors
          /\ last_kill' = c.kill
          /\ pc' = IF c.raised THEN "raised" ELSE "done"

Next ==
    \/ ReadInputs
    \/ InitNotice
    \/ LookupOrCreate
    \/ Issue
    \/ Connect
    \/ GetMetadata
    \/ CheckInitialCompletion
    \/ CheckTimeout
    \/ Lock
    \/ Query
    \/ ExceptCrash
    \/ ExceptError
    \/ Finally

Spec == Init /\ [][Next]_vars

(***************************************************************************)
(* run_conversation when every actor call and every pause comes back: a    *)
(* coroutine that can take its next step, or whose awaited call can        *)
(* return or fail, eventually does.                                        *)
(***************************************************************************)
LiveSpec == Init /\ [][Next]_vars /\ WF_vars(Next)

(***************************************************************************)
(* run_conversation in a process whose environment sets MAX_TURNS          *)
(***************************************************************************)
TurnsInit ==
    /\ Start
    /\ environ \in {[MAX_TURNS |-> t] : t \in EnvTurns \ {""}}

TurnsSpec == TurnsInit /\ [][Next]_vars

(***************************************************************************)
(* agent.py, one ClaudeSessionActor on its own: its methods called in any  *)
(* order, with any outcome of the subprocess client, and time passing      *)
(* between the calls.  The actor is actors[1]; run_conversation is not     *)
(* running.                                                                *)
(***************************************************************************)
conversation == <<environ, pc, locals, ret, in_flight, hist, runs>>

NotStarted ==
    /\ environ = [MAX_TURNS |-> ""]
    /\ pc = "start"
    /\ config = load_kodosumi_config("", "")
    /\ execution_id = "e1"
    /\ retry_count = 0
    /\ actor = None
    /\ is_first_connect = FALSE
    /\ result = NoResult
    /\ iteration = 0
    /\ user_input = NoneObj
    /\ response_text = <<>>
    /\ ret = NoReturn
    /\ in_flight = <<>>
    /\ calls = [connect |-> 0, lock |-> 0, query |-> 0, cleanup |-> 0,
                received |-> 0, unseen |-> FALSE]
    /\ last_kill = "none"
    /\ last_prompt = "none"

\* the record of a call: its argument, what the outside world did during it
\* (env), how it ended (r), the state it found, and the call before it
Call(name, arg, env, r, before) ==
    [name |-> name, arg |-> arg, env |-> env, raised |-> r.raised,
     value |-> r.value, sent |-> r.sent, before |-> before,
     prev |-> [name |-> op.name, arg |-> op.arg, env |-> op.env,
               raised |-> op.raised, value |-> op.value]]

\* how long the actor may be left alone between two calls
Waits == {timeout_seconds \div 2, timeout_seconds, timeout_seconds + 1}

ActorInit ==
    /\ NotStarted
    /\ registry = [e \in ExecIds |-> IF e = "e1" THEN 1 ELSE None]
    /\ actors = <<NewActorState>>
    /\ op = NoOp
    /\ created = {"e1"}
    /\ receive = NotReceiving
    /\ runs = <<>>

CallConnect ==
    /\ \E fail \in {"none", "open", "send", "collect"}, stream \in TurnStreams,
          d \in Durations :
          LET r == ActorConnect(actors[1], fail, stream, d) IN
          /\ actors' = [actors EXCEPT ![1] = r.actor]
          /\ op' = Call("connect", "prompt", fail, r, actors[1])
    /\ UNCHANGED <<conversation, registry, created, receive>>

CallQuery ==
    /\ \E fail \in {"none", "send", "collect"}, stream \in TurnStreams,
          d \in Durations :
          LET r == ActorQuery(actors[1], fail, stream, d) IN
          /\ actors' = [actors EXCEPT ![1] = r.actor]
          /\ op' = Call("query", "message", fail, r, actors[1])
    /\ UNCHANGED <<conversation, registry, created, receive>>

CallCheckTimeout ==
    /\ op' = Call("check_timeout", "none", "none",
                  Reply(actors[1], "ok", ActorCheckTimeout(actors[1]), <<>>),
                  actors[1])
    /\ UNCHANGED <<conversation, world, created, receive>>

CallDisconnect ==
    /\ \E client_fails \in BOOLEAN :
          LET r == DisconnectCall(actors[1], client_fails) IN
          /\ actors' = [actors EXCEPT ![1] = r.actor]
          /\ op' = Call("disconnect", "none",
                        IF client_fails THEN "client fails" ELSE "none",
                        r, actors[1])
    /\ UNCHANGED <<conversation, registry, created, receive>>

TimePasses ==
    /\ \E d \in Waits :
          /\ actors' = [actors EXCEPT ![1].idle = AddTime(@, d)]
          /\ op' = Call("wait", "none", "none", Reply(actors[1], "ok", "none", <<>>), actors[1])
    /\ UNCHANGED <<conversation, registry, created, receive>>

ActorNext ==
    \/ CallConnect
    \/ CallQuery
    \/ CallCheckTimeout
    \/ CallDisconnect
    \/ TimePasses

ActorSpec == ActorInit /\ [][ActorNext]_vars

(***************************************************************************)
(* agent.py, _collect_response on its own, L323-383: the loop over         *)
(* client.receive_response(), one event per step.  pos is the number of    *)
(* events taken from the stream so far; the payload of an event is its     *)
(* position, so that every event of a stream is told from the others.      *)
(***************************************************************************)
MaxStream == 4

EventStreams ==
    UNION { { [i \in 1..n |-> Event(ks[i], i)] : ks \in [1..n -> EventKinds] } :
            n \in 0..MaxStream }

ClassifyInit ==
    /\ NotStarted
    /\ registry = [e \in ExecIds |-> None]
    /\ actors = <<>>
    /\ op = NoOp
    /\ created = {}
    /\ runs = <<>>
    /\ \E stream \in EventStreams :
          receive = [stream |-> stream, pos |-> 0, user_messages |-> <<>>,
                     context_messages |-> <<>>, status |-> "reading"]

\* mutant: the ResultMessage is not recognised and passed over
ReceiveEventIgnoringResult ==
    /\ receive.status = "reading"
    /\ receive.pos < Len(receive.stream)
    /\ LET e == receive.stream[receive.pos + 1]
           c == ClassifyEvent(e, receive.user_messages, receive.context_messages)
       IN receive' = [receive EXCEPT !.pos = @ + 1,
                                     !.user_messages = c.user_messages,
                                     !.context_messages = c.context_messages]
    /\ UNCHANGED <<conversation, world, op, created>>

\* one pass of the loop body: the ResultMessage returns "complete" at once,
\* any other event is classified
ReceiveEvent ==
    /\ receive.status = "reading"
    /\ receive.pos < Len(receive.stream)
    /\ LET e == receive.stream[receive.pos + 1] IN
       IF e.kind = "result"
       THEN receive' = [receive EXCEPT !.pos = @ + 1, !.status = "complete"]
       ELSE LET c == ClassifyEvent(e, receive.user_messages, receive.context_messages)
            IN receive' = [receive EXCEPT !.pos = @ + 1,
                                          !.user_messages = c.user_messages,
                                          !.context_messages = c.context_messages]
    /\ UNCHANGED <<conversation, world, op, created>>

\* the stream is exhausted: "ready"
ReceiveExhausted ==
    /\ receive.status = "reading"
    /\ receive.pos = Len(receive.stream)
    /\ receive' = [receive EXCEPT !.status = "ready"]
    /\ UNCHANGED <<conversation, world, op, created>>

ClassifyNext ==
    \/ ReceiveEvent
    \/ ReceiveExhausted

ClassifySpec == ClassifyInit /\ [][ClassifyNext]_vars

(***************************************************************************)
(* agent.py, the registry on its own, L527-647: create_actor, get_actor    *)
(* and cleanup_actor called in any order for any execution id.             *)
(***************************************************************************)
MaxActors == 3

World == [registry |-> registry, actors |-> actors]

RegistryInit ==
    /\ NotStarted
    /\ registry = [e \in ExecIds |-> None]
    /\ actors = <<>>
    /\ op = NoOp
    /\ created = {}
    /\ receive = NotReceiving
    /\ runs = <<>>

CallCreateActor ==
    /\ Len(actors) < MaxActors
    /\ \E id \in ExecIds :
          LET c == create_actor(registry, actors, id) IN
          /\ registry' = c.registry
          /\ actors' = c.actors
          /\ created' = IF c.raised THEN created ELSE created \cup {id}
          /\ op' = Call("create_actor", id, "none",
                        Reply(None, IF c.raised THEN "ValueError" ELSE "ok",
                              c.handle, <<>>),
                        World)
    /\ UNCHANGED <<conversation, receive>>

\* get_actor(execution_id) as a call.  lookup = "error": ray.get_actor raises
\* something else than ValueError, which is not caught
CallGetActor ==
    /\ \E id \in ExecIds, lookup \in {"ok", "error"} :
          op' = Call("get_actor", id, lookup,
                     IF lookup = "error"
                     THEN Reply(None, "Exception", None, <<>>)
                     ELSE Reply(None, "ok", get_actor(registry, id), <<>>),
                     World)
    /\ UNCHANGED <<conversation, world, created, receive>>

CallCleanupActor ==
    /\ \E id \in ExecIds, lookup \in {"ok", "error"}, kill \in {"ok", "failed"} :
          LET c == cleanup_actor(registry, actors, id, lookup, kill) IN
          /\ registry' = c.registry
          /\ actors' = c.actors
          /\ created' = IF c.kill = "ok" THEN created \ {id} ELSE created
          /\ op' = Call("cleanup_actor", id, <<lookup, kill>>,
                        Reply(None, IF c.raised THEN "Exception" ELSE "ok",
                              c.kill, <<>>),
                        World)
    /\ UNCHANGED <<conversation, receive>>

\* the holder of a handle opens the session of a registered actor
CallConnectActor ==
    /\ \E id \in ExecIds :
          /\ get_actor(registry, id) # None
          /\ actors[get_actor(registry, id)].alive
          /\ LET ref == get_actor(registry, id)
                 r   == ActorConnect(actors[ref], "none", <<>>, 0)
             IN /\ actors' = [actors EXCEPT ![ref] = r.actor]
                /\ op' = Call("connect", id, "none", r, World)
    /\ UNCHANGED <<conversation, registry, created, receive>>

RegistryNext ==
    \/ CallCreateActor
    \/ CallConnectActor
    \/ CallGetActor
    \/ CallCleanupActor

RegistrySpec == RegistryInit /\ [][RegistryNext]_vars

(***************************************************************************)
(* The registry with actors that die.  The process of a registered actor   *)
(* may die at any time and is not restarted (max_restarts=0, agent.py      *)
(* L588-595); when cleanup_actor runs Ray may still know the name of the   *)
(* dead actor (named) or not.                                              *)
(***************************************************************************)
ActorDies ==
    /\ \E id \in ExecIds, named \in BOOLEAN :
          /\ registry[id] # None
          /\ actors[registry[id]].alive
          /\ actors' = [actors EXCEPT ![registry[id]] = DeadActor]
          /\ registry' = IF named THEN registry
                         ELSE [registry EXCEPT ![id] = None]
          /\ op' = Call("dies", id, named, Reply(None, "ok", None, <<>>), World)
    /\ UNCHANGED <<conversation, created, receive>>

TeardownNext ==
    \/ RegistryNext
    \/ ActorDies

TeardownSpec == RegistryInit /\ [][TeardownNext]_vars

(***************************************************************************)
(* query.py, two invocations of run_conversation side by side, L339-479.   *)
(* Each is a coroutine of its own with its own execution_id, actor and     *)
(* retry_count; they share the registry and the actors.  A position is an  *)
(* await the coroutine is suspended at: "create" the notice between        *)
(* get_actor and create_actor (L344), "connect", "check_timeout" and       *)
(* "query" the actor call that is in flight, "lock" the human-input pause. *)
(* What a turn holds and which of the returns of L372-446 ends the         *)
(* conversation is left open: every return leads to the finally clause     *)
(* alike, and get_metadata is a call like the poll.                        *)
(***************************************************************************)
solo == <<environ, pc, locals, ret, in_flight, hist, op, created, receive>>

NewRun(id) ==
    [pc |-> "lookup", execution_id |-> id, actor |-> None, retry_count |-> 0]

PairInit ==
    /\ NotStarted
    /\ registry = [e \in ExecIds |-> None]
    /\ actors = <<>>
    /\ op = NoOp
    /\ created = {}
    /\ receive = NotReceiving
    /\ \E id1 \in ExecIds, id2 \in ExecIds : runs = <<NewRun(id1), NewRun(id2)>>

At(i, p) == runs[i].pc = p

Goto(i, p) == runs' = [runs EXCEPT ![i].pc = p]

\* L342-351: get_actor; an actor that is found is reconnected to, else the
\* notice of L344 is awaited
RunLookup(i) ==
    /\ At(i, "lookup")
    /\ LET ref == get_actor(registry, runs[i].execution_id) IN
       IF ref = None
       THEN Goto(i, "create")
       ELSE runs' = [runs EXCEPT ![i].actor = ref, ![i].pc = "connect"]
    /\ UNCHANGED <<solo, world>>

\* L347: create_actor, which raises when the name has been taken meanwhile
RunCreate(i) ==
    /\ At(i, "create")
    /\ LET c == create_actor(registry, actors, runs[i].execution_id) IN
       /\ registry' = c.registry
       /\ actors' = c.actors
       /\ IF c.raised
          THEN Goto(i, "except_error")
          ELSE runs' = [runs EXCEPT ![i].actor = c.handle, ![i].pc = "connect"]
    /\ UNCHANGED solo

\* L353-381: connect is back
RunConnect(i) ==
    /\ At(i, "connect")
    /\ UNCHANGED <<solo, registry>>
    /\ LET h == runs[i].actor IN
       IF ~actors[h].alive
       THEN Goto(i, "except_crash") /\ actors' = actors
       ELSE \/ /\ actors' = [actors EXCEPT ![h] = ActorConnect(@, "open", <<>>, 0).actor]
               /\ Goto(i, "except_error")
            \/ /\ actors' = [actors EXCEPT ![h] = ActorConnect(@, "none", <<>>, 0).actor]
               /\ \/ Goto(i, "check_timeout")
                  \/ Goto(i, "finally")

\* L389-411: the poll is back
RunCheckTimeout(i) ==
    /\ At(i, "check_timeout")
    /\ UNCHANGED <<solo, world>>
    /\ IF ~actors[runs[i].actor].alive
       THEN Goto(i, "except_crash")
       ELSE \/ Goto(i, "lock")
            \/ Goto(i, "finally")

\* L413-440: the human has answered
RunLock(i) ==
    /\ At(i, "lock")
    /\ UNCHANGED <<solo, world>>
    /\ \/ Goto(i, "query")
       \/ Goto(i, "finally")

\* L441-446: query is back
RunQuery(i) ==
    /\ At(i, "query")
    /\ UNCHANGED <<solo, registry>>
    /\ LET h == runs[i].actor
           r == ActorQuery(actors[h], "none", <<>>, 0)
       IN IF ~actors[h].alive
          THEN Goto(i, "except_crash") /\ actors' = actors
          ELSE /\ actors' = [actors EXCEPT ![h] = r.actor]
               /\ IF r.raised # "ok"
                  THEN Goto(i, "except_error")
                  ELSE \/ Goto(i, "check_timeout")
                       \/ Goto(i, "finally")

\* L451-465: the RayActorError handler
RunExceptCrash(i) ==
    /\ At(i, "except_crash")
    /\ UNCHANGED solo
    /\ IF MayRetry(runs[i].retry_count + 1)
       THEN \E lookup \in {"ok", "error"}, kill \in {"ok", "failed"} :
               LET c == cleanup_actor(registry, actors, runs[i].execution_id,
                                      lookup, kill) IN
               /\ registry' = c.registry
               /\ actors' = c.actors
               /\ runs' = [runs EXCEPT ![i].retry_count = @ + 1,
                                       ![i].pc = "lookup"]
       ELSE /\ UNCHANGED world
            /\ runs' = [runs EXCEPT ![i].retry_count = @ + 1,
                                    ![i].pc = "finally"]

\* L472-475: the outermost handler
RunExceptError(i) ==
    /\ At(i, "except_error")
    /\ UNCHANGED <<solo, world>>
    /\ Goto(i, "finally")

\* mutant: the final teardown removes a session whatever its id
RunFinallyOfAnyId(i) ==
    /\ At(i, "finally")
    /\ UNCHANGED solo
    /\ \E id \in ExecIds, lookup \in {"ok", "error"}, kill \in {"ok", "failed"} :
          LET c == cleanup_actor(registry, actors, id, lookup, kill) IN
          /\ registry' = c.registry
          /\ actors' = c.actors
          /\ Goto(i, IF c.raised THEN "raised" ELSE "done")

\* L477-479: the final teardown
RunFinally(i) ==
    /\ At(i, "finally")
    /\ UNCHANGED solo
    /\ \E lookup \in {"ok", "error"}, kill \in {"ok", "failed"} :
          LET c == cleanup_actor(registry, actors, runs[i].execution_id,
                                 lookup, kill) IN
          /\ registry' = c.registry
          /\ actors' = c.actors
          /\ Goto(i, IF c.raised THEN "raised" ELSE "done")

\* the worker process of an actor dies (agent.py L588-595: no restart)
RunActorDies ==
    /\ \E h \in DOMAIN actors, named \in BOOLEAN :
          /\ actors[h].alive
          /\ actors' = [actors EXCEPT ![h] = DeadActor]
          /\ registry' = [e \in ExecIds |->
                             IF registry[e] = h /\ ~named THEN None
                             ELSE registry[e]]
    /\ UNCHANGED <<solo, runs>>

Run(i) ==
    \/ RunLookup(i)
    \/ RunCreate(i)
    \/ RunConnect(i)
    \/ RunCheckTimeout(i)
    \/ RunLock(i)
    \/ RunQuery(i)
    \/ RunExceptCrash(i)
    \/ RunExceptError(i)
    \/ RunFinally(i)

PairNext ==
    \/ \E i \in {1, 2} : Run(i)
    \/ RunActorDies

PairSpec == PairInit /\ [][PairNext]_vars

(***************************************************************************)
(* Properties                                                              *)
(***************************************************************************)
Ended == pc \in {"finally", "done", "raised"}

\* C1: a conversation issues at most 1 + max_retries = 2 actor.connect
\* calls, and once the original attempt and its retry have both crashed
\* (retry_count > max_retries) the conversation is over: no third connect.
C1_ConnectBound ==
    /\ calls.connect <= 1 + max_retries
    /\ retry_count > max_retries => Ended

C1_BothCrashed ==
    /\ pc = "done"
    /\ calls.connect = 2
    /\ retry_count = 2
    /\ ret = Summary(0, "Session failed after retries")

C3_SecondCrashEnds ==
    [][ /\ (pc = "except_crash" /\ retry_count = max_retries) =>
              /\ retry_count' = max_retries + 1
              /\ pc' = "finally"
              /\ ret' = Summary(0, "Session failed after retries")
              /\ UNCHANGED <<calls, world, actor>>
        /\ (pc = "finally" /\ ret.reason = "Session failed after retries") =>
              /\ pc' \in {"done", "raised"}
              /\ ret' = ret
              /\ calls'.connect = calls.connect
              /\ calls'.query = calls.query
              /\ calls'.lock = calls.lock
              /\ Len(actors') = Len(actors)
      ]_vars

C3_FailedAfterRetries ==
    /\ pc = "done"
    /\ retry_count = max_retries + 1
    /\ ret.reason = "Session failed after retries"

\* C4: within one connect attempt iteration never exceeds
\* MAX_MESSAGE_ITERATIONS; a successful query in iteration 50 is followed by
\* the return of the 'Maximum iteration limit reached' summary, with no
\* further human-input pause.
C4_IterationCap ==
    /\ [](iteration <= MAX_MESSAGE_ITERATIONS)
    /\ [][ /\ (pc = "query" /\ iteration = MAX_MESSAGE_ITERATIONS
                /\ in_flight = <<>> /\ pc' # "except_error") =>
                 /\ calls'.query = calls.query + 1
                 /\ in_flight' = <<"query">>
           /\ (pc = "query" /\ iteration = MAX_MESSAGE_ITERATIONS
                /\ in_flight # <<>>
                /\ pc' \notin {"except_error", "except_crash"}) =>
                 /\ pc' = "finally"
                 /\ ret' = Summary(MAX_MESSAGE_ITERATIONS,
                                   "Maximum iteration limit reached (50)")
           /\ Ended => Ended' /\ calls'.lock = calls.lock
         ]_vars

C4_CapReached ==
    /\ pc = "done"
    /\ iteration = MAX_MESSAGE_ITERATIONS
    /\ calls.query >= MAX_MESSAGE_ITERATIONS
    /\ ret = Summary(50, "Maximum iteration limit reached (50)")

\* C5: over one whole conversation, retry attempt included, neither the
\* number of human-input pauses nor the number of query() calls exceeds the
\* iteration cap of 50.
C5_ConversationCap ==
    /\ calls.lock <= MAX_MESSAGE_ITERATIONS
    /\ calls.query <= MAX_MESSAGE_ITERATIONS

\* C6: no exception of any step of run_conversation reaches its caller.
C6_NoExceptionEscapes == pc # "raised"

\* C7: whenever run_conversation has returned, cleanup_actor has been
\* executed, and no actor is left registered under the execution id unless
\* the destroy step of the final teardown failed.
C7_TeardownOnEveryExit ==
    pc = "done" =>
        /\ calls.cleanup >= 1
        /\ last_kill # "failed" => registry[execution_id] = None

C7_ActorRemoved ==
    /\ pc = "done"
    /\ Len(actors) >= 1
    /\ last_kill = "ok"
    /\ registry[execution_id] = None

\* C8 (as stated): cleanup_actor runs exactly once per conversation on every
\* path, crash retry included.
C8_ExactlyOneCleanup == pc = "done" => calls.cleanup = 1

\* C8 (amended): the final teardown runs exactly once, as the last step of
\* every conversation that entered the control loop; before it cleanup_actor
\* runs only in the crash handler, once when it retries.  So cleanup_actor
\* has run once when no crash occurred, twice when a retry attempt was made,
\* and never more than 1 + max_retries times.
C8_FinalTeardownOnce ==
    /\ [](pc = "done" =>
            /\ calls.cleanup >= 1
            /\ calls.cleanup <= 1 + max_retries
            /\ retry_count = 0 => calls.cleanup = 1
            /\ calls.connect = 2 => calls.cleanup = 2)
    /\ [][ /\ pc = "finally" =>
                 calls'.cleanup = calls.cleanup + 1 /\ pc' \in {"done", "raised"}
           /\ calls'.cleanup # calls.cleanup =>
                 /\ pc \in {"finally", "except_crash"}
                 /\ calls'.cleanup = calls.cleanup + 1
           /\ pc \in {"done", "raised"} => calls' = calls
         ]_vars

C8_TwoCleanups ==
    /\ pc = "done"
    /\ retry_count = 1
    /\ calls.cleanup = 2

\* C9: under auto-complete a turn whose status is complete is never followed
\* by the human-input pause, and the conversation then ends (unless an error
\* or crash ends it) with the final result built from that turn's
\* user_messages.
C9_CompleteTurnFinalizes ==
    (config.completion_mode = "auto-complete" /\ result.status = "complete") =>
        /\ pc \notin {"lock", "query"}
        /\ pc \in {"finally", "done"} =>
              \/ /\ ret.kind = "final"
                 /\ ret.messages = result.user_messages
              \/ ret.reason \in {"Error", "Session failed after retries"}

\* the pause results of LockReturns that end the conversation, written out
C10_EndingReturns ==
    { NoneObj, EmptyDict, [cancelled |-> TRUE],
      [response |-> <<>>, cancelled |-> FALSE],
      [response |-> <<" ", "\n">>],
      [response |-> <<"d","o","n","e">>, cancelled |-> FALSE],
      [response |-> <<"D","o","n","e">>, cancelled |-> FALSE],
      [response |-> <<"E","X","I","T">>, cancelled |-> FALSE],
      [response |-> <<"S","t","o","p">>, cancelled |-> FALSE],
      [response |-> <<"\t","Q","U","I","T"," ">>] }

C10_KeywordReturns ==
    { [response |-> <<"d","o","n","e">>, cancelled |-> FALSE],
      [response |-> <<"D","o","n","e">>, cancelled |-> FALSE],
      [response |-> <<"E","X","I","T">>, cancelled |-> FALSE],
      [response |-> <<"S","t","o","p">>, cancelled |-> FALSE],
      [response |-> <<"\t","Q","U","I","T"," ">>] }

\* C10: a pause that returns no object, an empty object, a cancellation, a
\* response that is empty after trimming, or done/exit/quit/stop in any
\* letter case around which whitespace may stand, ends the conversation with
\* a summary carrying the current turn count and no further query() or
\* connect(); 'done' in the first turn gives 'Conversation completed
\* successfully' with turn count 1.
C10_PauseEndsConversation ==
    [][ /\ (pc = "lock" /\ pc' # "except_error" /\ user_input' \in C10_EndingReturns) =>
              /\ pc' = "finally"
              /\ ret'.kind = "summary"
              /\ ret'.iterations = iteration
              /\ user_input' \in C10_KeywordReturns =>
                    ret'.reason = "Conversation completed successfully"
              /\ calls'.query = calls.query
              /\ calls'.connect = calls.connect
        /\ (pc = "lock" /\ pc' = "query") => user_input' \notin C10_EndingReturns
        /\ Ended =>
              /\ Ended'
              /\ ret' = ret
              /\ calls'.query = calls.query
              /\ calls'.connect = calls.connect
      ]_vars

C10_DoneInFirstTurn ==
    /\ pc = "done"
    /\ calls.lock = 1
    /\ calls.query = 0
    /\ user_input = [response |-> <<"d","o","n","e">>, cancelled |-> FALSE]
    /\ ret = Summary(1, "Conversation completed successfully")

\* C11: query() on an actor whose connected flag is false (never connected,
\* connect failed after the client was made, or disconnected) fails with the
\* not-connected RuntimeError, passes nothing to the subprocess client and
\* leaves client, connected and last_activity as they were.
C11_QueryNotConnected ==
    (op.name = "query" /\ ~op.before.connected) =>
        /\ op.raised = "RuntimeError"
        /\ op.sent = <<>>
        /\ actors[1].client = op.before.client
        /\ actors[1].connected = op.before.connected
        /\ actors[1].idle = op.before.idle

C11_QueryAfterFailedConnect ==
    /\ op.name = "query"
    /\ op.prev.name = "connect"
    /\ op.prev.raised = "Exception"
    /\ op.before.client = "client"
    /\ ~op.before.connected
    /\ op.raised = "RuntimeError"

\* C12: disconnect() never raises and returns {status: disconnected} from
\* every actor state, also when client.disconnect() fails; afterwards
\* connected is false and client is None, and a disconnect() that follows a
\* disconnect() changes nothing.
C12_DisconnectNeverRaises ==
    op.name = "disconnect" =>
        /\ op.raised = "ok"
        /\ op.value = Disconnected
        /\ ~actors[1].connected
        /\ actors[1].client = "None"
        /\ op.prev.name = "disconnect" => actors[1] = op.before

C12_ClientDisconnectFailed ==
    /\ op.name = "disconnect"
    /\ op.env = "client fails"
    /\ op.before.connected
    /\ op.sent = <<"disconnect">>
    /\ op.raised = "ok"

\* C13: between two calls, also after a connect() whose client.connect(None)
\* or client.query(prompt) failed, client is non-null if and only if
\* connected is true.
C13_ClientIffConnected == (actors[1].client # "None") <=> actors[1].connected

\* C14: check_timeout() called right after a connect() or query() that
\* returned its TurnResult returns false, however long that call took.
C14_NoTimeoutAfterTurn ==
    (/\ op.name = "check_timeout"
     /\ op.prev.name \in {"connect", "query"}
     /\ op.prev.raised = "ok") =>
        op.value = FALSE

\* C15: check_timeout() returns true exactly when more than timeout_seconds
\* have passed since last_activity: false at exactly 660 seconds and on a
\* new actor, whatever was polled before; it changes nothing of the actor.
C15_TimeoutThreshold ==
    op.name = "check_timeout" =>
        /\ op.value = (op.before.idle > timeout_seconds)
        /\ op.before.idle = timeout_seconds => op.value = FALSE
        /\ op.before = NewActorState => op.value = FALSE
        /\ actors[1] = op.before
        /\ op.prev.name = "check_timeout" => op.value = op.prev.value

C15_PolledAtThreshold ==
    /\ op.name = "check_timeout"
    /\ op.prev.name = "check_timeout"
    /\ op.before.idle = timeout_seconds
    /\ op.value = FALSE

\* what a stream holds, said without the loop
IsTextEvent(e) == e.kind = "text"

IsContextEvent(e) == e.kind \in {"thinking", "tool_use", "tool_result", "system"}

HasResult(s) == \E i \in 1..Len(s) : s[i].kind = "result"

FirstResult(s) ==
    CHOOSE k \in 1..Len(s) :
        s[k].kind = "result" /\ \A j \in 1..(k - 1) : s[j].kind # "result"

TextOf(s) ==
    LET t == SelectSeq(s, IsTextEvent)
    IN [i \in 1..Len(t) |-> [type |-> "text", content |-> t[i].payload]]

ContextOf(s) ==
    LET t == SelectSeq(s, IsContextEvent)
    IN [i \in 1..Len(t) |-> [type |-> t[i].kind, content |-> t[i].payload]]

Returned ==
    TurnResult(receive.status, receive.user_messages, receive.context_messages)

C17_CompleteStopsAtResult ==
    LET s == receive.stream IN
    HasResult(s) =>
        LET k == FirstResult(s) IN
        /\ receive.pos <= k
        /\ receive.status # "ready"
        /\ receive.status = "complete" =>
              /\ receive.pos = k
              /\ receive.user_messages = TextOf(SubSeq(s, 1, k - 1))
              /\ receive.context_messages = ContextOf(SubSeq(s, 1, k - 1))
              /\ Returned = collect_response(s)
              /\ Returned = collect_response(SubSeq(s, 1, k))

C17_EventsAfterResult ==
    /\ receive.status = "complete"
    /\ receive.pos = 2
    /\ Len(receive.stream) = 4
    /\ receive.stream[1].kind = "text"
    /\ receive.stream[3].kind = "text"
    /\ receive.stream[4].kind = "result"
    /\ Len(receive.user_messages) = 1

\* C18: user_messages holds only entries of type text, one for each text
\* event taken from the stream and none for any other event, and the
\* ResultMessage is in neither channel.
C18_OnlyTextForTheHuman ==
    LET s  == receive.stream
        um == receive.user_messages
        cm == receive.context_messages
        read == SubSeq(s, 1, receive.pos)
    IN /\ \A i \in 1..Len(um) :
             /\ um[i].type = "text"
             /\ um[i].content \in 1..receive.pos
             /\ s[um[i].content].kind = "text"
       /\ Len(um) = Len(SelectSeq(read, IsTextEvent))
       /\ \A i \in 1..Len(cm) :
             /\ cm[i].type # "result"
             /\ s[cm[i].content].kind # "result"

C18_AllKindsSeen ==
    /\ receive.status = "complete"
    /\ receive.pos = 4
    /\ receive.stream[1].kind = "thinking"
    /\ receive.stream[2].kind = "text"
    /\ receive.stream[3].kind = "tool_result"
    /\ Len(receive.user_messages) = 1
    /\ Len(receive.context_messages) = 2

\* C19: when the lookup finds no actor registered under id, cleanup_actor(id)
\* completes without raising and changes nothing; this is so for an id never
\* created and for one whose actor an earlier cleanup_actor(id) destroyed.
\* It is idempotent: a cleanup_actor(id) that follows a cleanup_actor(id)
\* under the same behaviour of the outside world completes without error and
\* leaves the registry as the first call left it.
C19_CleanupIdempotent ==
    (op.name = "cleanup_actor" /\ op.env[1] = "ok") =>
        /\ op.raised = "ok"
        /\ op.before.registry[op.arg] = None =>
              op.value = "none" /\ World = op.before
        /\ (/\ op.prev.name = "cleanup_actor"
            /\ op.prev.arg = op.arg
            /\ op.prev.value = "ok") => op.before.registry[op.arg] = None
        /\ (/\ op.prev.name = "cleanup_actor"
            /\ op.prev.arg = op.arg
            /\ op.prev.env = op.env) => registry = op.before.registry
        /\ op.arg \notin created => registry[op.arg] = None

C19_SecondCleanup ==
    /\ op.name = "cleanup_actor"
    /\ op.arg = "e1"
    /\ op.prev.name = "cleanup_actor"
    /\ op.prev.arg = "e1"
    /\ op.prev.value = "ok"
    /\ op.env = <<"ok", "ok">>
    /\ op.raised = "ok"
    /\ actors = <<DeadActor>>
    /\ World = op.before
    /\ registry["e1"] = None

\* C20: after any sequence of create_actor, get_actor and cleanup_actor,
\* what get_actor(id) returns is a handle if and only if an actor was created
\* under id and not destroyed by cleanup_actor(id) since, and None for every
\* other id; get_actor changes nothing of the registry.
C20_LookupReflectsRegistry ==
    /\ \A id \in ExecIds : get_actor(registry, id) # None <=> id \in created
    /\ op.name = "get_actor" =>
          /\ World = op.before
          /\ op.raised = "ok" =>
                /\ op.value # None <=> op.arg \in created
                /\ op.value # None => actors[op.value].alive
    /\ (op.name = "create_actor" /\ op.raised = "ok") =>
          get_actor(registry, op.arg) = op.value

C20_FoundThenGone ==
    /\ op.name = "get_actor"
    /\ op.arg = "e1"
    /\ op.raised = "ok"
    /\ op.value = None
    /\ op.prev.name = "cleanup_actor"
    /\ op.prev.arg = "e1"
    /\ op.prev.value = "ok"
    /\ registry["e2"] # None

\* C21: run_conversation has at most one call to its actor in flight.  A call
\* is in flight only at the position that awaits it, so nothing is in flight
\* when the pause, the handlers or the teardown (whose disconnect is the
\* fourth method) run; a query is in flight only after the TurnResult of the
\* turn before it has come back.
C21_OneCallInFlight ==
    /\ Len(in_flight) <= 1
    /\ in_flight # <<>> =>
          /\ pc \in DOMAIN Awaited
          /\ in_flight = <<Awaited[pc]>>
    /\ in_flight = <<"query">> =>
          /\ result.status \in {"ready", "complete"}
          /\ calls.connect >= 1

C21_SecondQueryInFlight ==
    /\ in_flight = <<"query">>
    /\ calls.query = 2
    /\ iteration = 2
    /\ actors[actor].alive

\* C22: what connect() and query() return has a status in {ready, complete}
\* and a 'messages' sequence whose entries have a type in {text, tool} and a
\* content.
C22_ResultHasMessages ==
    (op.name \in {"connect", "query"} /\ op.raised = "ok") =>
        /\ op.value.status \in {"ready", "complete"}
        /\ "messages" \in DOMAIN op.value
        /\ \A i \in 1..Len(op.value.messages) :
              /\ op.value.messages[i].type \in {"text", "tool"}
              /\ "content" \in DOMAIN op.value.messages[i]

\* C23: a response that comes after the actor has been idle for more than
\* the idle timeout is not forwarded: no query is in flight on an actor whose
\* idle time, when the pause ended, was over timeout_seconds (the
\* conversation ends with the timeout summary instead).
C23_LateResponseNotForwarded ==
    (in_flight = <<"query">> /\ actors[actor].alive) =>
        actors[actor].idle <= timeout_seconds

\* C24: the connect issued on the retry attempt after a crash carries the
\* reconnection prompt ('Continuing conversation: <prompt>'), not the original
\* prompt; the original prompt goes with the first connect only.
C24_RetryCarriesReconnectPrompt ==
    (calls.connect = 2 /\ retry_count = 1) => last_prompt = "reconnect"

\* C25: only a crash of the actor (RayActorError) leads to the retry path.
\* retry_count changes in the RayActorError handler alone; an ordinary
\* exception raised in the control loop (a failed create, a transport failure
\* or the not-connected error of a turn, a notice that raises) is followed by
\* the Error summary with retry_count as it was and no call sent, and after
\* that no connect and no query is issued.
C25_OnlyCrashRetries ==
    [][ /\ retry_count' # retry_count => pc = "except_crash"
        /\ pc = "except_error" =>
              /\ retry_count' = retry_count
              /\ calls' = calls
              /\ in_flight' = <<>>
              /\ pc' = "finally"
              /\ ret' = Summary(0, "Error")
        /\ (Ended /\ ret = Summary(0, "Error")) =>
              /\ Ended'
              /\ retry_count' = retry_count
              /\ calls'.connect = calls.connect
              /\ calls'.query = calls.query
              /\ in_flight' = <<>>
      ]_vars

C25_ErrorMidTurn ==
    /\ pc = "done"
    /\ ret = Summary(0, "Error")
    /\ retry_count = 0
    /\ calls.connect = 1
    /\ calls.query = 1
    /\ actors[actor].alive

\* C26: cleanup_actor(id) on a registered actor attempts ray.kill whether the
\* disconnect before it failed or not (it fails on a dead actor), and returns
\* normally whether the kill completes or not; when the kill completes the
\* actor is gone from the registry.
C26_KillAttemptedAnyway ==
    (op.name = "cleanup_actor" /\ op.env[1] = "ok"
        /\ op.before.registry[op.arg] # None) =>
        /\ op.raised = "ok"
        /\ op.value = op.env[2]
        /\ op.value = "ok" =>
              /\ registry[op.arg] = None
              /\ ~actors[op.before.registry[op.arg]].alive

C26_DeadActorKilled ==
    /\ op.name = "cleanup_actor"
    /\ op.before.registry[op.arg] # None
    /\ ~op.before.actors[op.before.registry[op.arg]].alive
    /\ op.value = "ok"
    /\ registry[op.arg] = None

\* C27: the final teardown never replaces the result: once run_conversation
\* has given a result or summary to return, it does not end by raising an
\* exception, whatever fails inside cleanup_actor.
C27_TeardownKeepsResult ==
    ret # NoReturn => pc # "raised"

\* C28: in continuous mode a complete turn does not end the conversation by
\* itself.  After a complete connect turn the first iteration is entered;
\* after the poll of an iteration whose latest turn is complete the
\* human-input pause is entered with status complete, unless the poll
\* reports the timeout, the actor has crashed or an error is raised; and no
\* final result of a completed task is ever returned: the conversation ends
\* with one of the summaries of the human's answer, the timeout, the
\* exhausted retries, an error or the iteration cap.
C28_CompleteDoesNotEnd ==
    /\ [](config.completion_mode = "continuous" =>
            /\ ret.kind # "final"
            /\ ret.reason \in {"", "Conversation ended by user",
                               "Conversation completed successfully",
                               "Empty response - conversation ended",
                               "Session timed out (11 minutes idle)",
                               "Session failed after retries", "Error",
                               "Maximum iteration limit reached (50)"})
    /\ [][ (config.completion_mode = "continuous" /\ result.status = "complete") =>
             /\ pc = "connected" =>
                   pc' = "check_timeout" /\ iteration' = 1 /\ ret' = ret
             /\ (pc = "check_timeout" /\ in_flight # <<>>
                   /\ pc' \notin {"except_crash", "except_error"}
                   /\ actors[actor].idle <= timeout_seconds) =>
                   /\ pc' = "lock"
                   /\ ret' = ret
                   /\ LockPayload'.status = "complete"
                   /\ LockPayload'.iteration = iteration
          ]_vars

C28_PauseAfterCompleteTurn ==
    /\ pc = "lock"
    /\ config.completion_mode = "continuous"
    /\ result.status = "complete"
    /\ calls.query = 1
    /\ iteration = 2
    /\ LockPayload.status = "complete"

\* t is raw without its leading and trailing whitespace
Trimmed(raw, t) ==
    /\ t # <<>> => t[1] \notin Whitespace /\ t[Len(t)] \notin Whitespace
    /\ \E i, j \in 0..Len(raw) :
          /\ i + Len(t) + j = Len(raw)
          /\ SubSeq(raw, i + 1, i + Len(t)) = t
          /\ \A k \in 1..i : raw[k] \in Whitespace
          /\ \A k \in (Len(raw) - j + 1)..Len(raw) : raw[k] \in Whitespace

\* C29: a query is sent only right after one pause of its own.  Where the
\* query is about to be sent or in flight, the latest pause returned a
\* response object that is present and not cancelled, whose response, with
\* the surrounding whitespace removed, is not empty and not a termination
\* keyword and is the message of the query; and the pauses of the
\* conversation are the queries sent so far, plus the one pause whose query
\* is about to be sent.
C29_QueryFollowsOnePause ==
    /\ in_flight = <<"query">> => pc = "query"
    /\ calls.query <= calls.lock
    /\ pc = "query" =>
          /\ Truthy(user_input)
          /\ ~Get(user_input, "cancelled", FALSE)
          /\ Trimmed(Get(user_input, "response", <<>>), response_text)
          /\ response_text # <<>>
          /\ \A kw \in TerminationKeywords : Lower(response_text) # kw
          /\ calls.lock = calls.query + (IF in_flight = <<>> THEN 1 ELSE 0)

C29_TrimmedResponseSent ==
    /\ in_flight = <<"query">>
    /\ user_input = [response |-> <<"\t","h","i","\n">>]
    /\ response_text = <<"h","i">>
    /\ calls.lock = 2
    /\ calls.query = 2

\* C30: check_timeout is polled once in every iteration, before its pause.
\* The poll is sent only at the top of an iteration, which is entered by
\* counting the iteration; once the poll is back the iteration does not poll
\* again; the pause is entered only from a poll that came back false.  A poll
\* that comes back true (the actor has been idle for more than
\* timeout_seconds) is followed by the return of the timeout summary, an
\* ordinary return value, with no pause and no query sent, and none follow.
C30_PollOncePerIteration ==
    [][ /\ (in_flight' = <<"check_timeout">> /\ in_flight = <<>>) =>
              pc = "check_timeout"
        /\ (pc' = "check_timeout" /\ pc # "check_timeout") =>
              /\ iteration' = (IF pc = "connected" THEN 0 ELSE iteration) + 1
              /\ in_flight' = <<>>
        /\ (pc = "check_timeout" /\ in_flight # <<>>) => pc' # "check_timeout"
        /\ pc' = "lock" =>
              /\ pc = "check_timeout"
              /\ in_flight = <<"check_timeout">>
              /\ actors[actor].idle <= timeout_seconds
        /\ (pc = "check_timeout" /\ in_flight # <<>> /\ actors[actor].alive
                /\ actors[actor].idle > timeout_seconds
                /\ pc' \notin {"except_crash", "except_error"}) =>
              /\ pc' = "finally"
              /\ ret' = Summary(iteration, "Session timed out (11 minutes idle)")
              /\ calls' = calls
        /\ (Ended /\ ret.reason = "Session timed out (11 minutes idle)") =>
              /\ Ended'
              /\ pc' # "raised" => ret' = ret
              /\ calls'.lock = calls.lock
              /\ calls'.query = calls.query
      ]_vars

C30_TimedOutAfterATurn ==
    /\ pc = "finally"
    /\ ret = Summary(2, "Session timed out (11 minutes idle)")
    /\ calls.lock = 1
    /\ calls.query = 1
    /\ actors[actor].idle > timeout_seconds

\* the events of a stream that are read: those before its first ResultMessage
ReadPart(s) == IF HasResult(s) THEN SubSeq(s, 1, FirstResult(s) - 1) ELSE s

\* C31: what the human-input pause is given holds the iteration number, the
\* status of the latest turn and, as messages, the user_messages of that turn
\* alone: the text events one turn's stream held before its end, in order;
\* nothing of the other channel (thinking, tool_use, tool_result, system) and
\* nothing added from an earlier turn.
C31_PauseShowsLatestUserMessages ==
    pc = "lock" =>
        /\ LockPayload.iteration = iteration
        /\ LockPayload.status = result.status
        /\ LockPayload.status \in {"ready", "complete"}
        /\ \A i \in 1..Len(LockPayload.messages) :
              LockPayload.messages[i].type = "text"
        /\ \E s \in TurnStreams :
              /\ LockPayload.messages = TextOf(ReadPart(s))
              /\ result.context_messages = ContextOf(ReadPart(s))
              /\ LockPayload.status = IF HasResult(s) THEN "complete" ELSE "ready"

C31_PauseAfterTurnWithContext ==
    /\ pc = "lock"
    /\ calls.query = 2
    /\ result.context_messages # <<>>
    /\ LockPayload.messages = <<[type |-> "text", content |-> "b"]>>
    /\ LockPayload.iteration = 3

\* C32: connect(prompt) opens the channel first, without the prompt, and
\* sends the prompt after it as a step of its own.  When one of the two steps
\* fails, connected and the recorded activity stay as they were and nothing
\* is collected; connected is true and the activity is recorded once both
\* have succeeded, and a response is returned only then.
C32_ConnectInTwoSteps ==
    op.name = "connect" =>
        /\ op.sent = IF op.env = "open" THEN <<"open">> ELSE <<"open", "prompt">>
        /\ op.env \in {"open", "send"} =>
              /\ actors[1].connected = op.before.connected
              /\ actors[1].idle = op.before.idle
              /\ op.raised # "ok"
              /\ op.value = NoResult
        /\ op.env \in {"collect", "none"} =>
              /\ actors[1].connected
              /\ \E d \in Durations : actors[1].idle = AddTime(0, d)
        /\ op.raised = "ok" =>
              /\ op.env = "none"
              /\ actors[1].connected
              /\ op.value.status \in {"ready", "complete"}

C32_ConnectedAfterFailedSend ==
    /\ op.name = "connect"
    /\ op.raised = "ok"
    /\ ~op.before.connected
    /\ op.before.idle > 0
    /\ op.prev.name = "connect"
    /\ op.prev.env = "send"
    /\ actors[1].connected

\* C33: an actor never has more than one live subprocess client: no client
\* that was opened is left live, unreleased, behind the one the actor holds.
C33_OneLiveClient ==
    \A h \in DOMAIN actors : ~actors[h].orphaned

\* C34: the conversation loop runs at most max_turns iterations, max_turns
\* being the value load_kodosumi_config took from MAX_TURNS.
C34_ConfiguredTurnsBound ==
    pc # "start" => iteration <= config.max_turns

\* run_conversation has returned, or has raised to its caller
Terminated == pc \in {"done", "raised"}

\* C35: when every actor call and every human-input pause comes back, every
\* conversation ends: run_conversation returns (or raises) after finitely
\* many steps, it does not go round the retry loop or the iteration loop
\* for ever.
C35_EventuallyTerminated == <>Terminated

C35_EndedAtTheCapAfterRetry ==
    /\ Terminated
    /\ retry_count = 1
    /\ iteration = MAX_MESSAGE_ITERATIONS
    /\ calls.query > MAX_MESSAGE_ITERATIONS

\* C36: the pause leaves the actor alone, and the query after it goes to the
\* actor that answered before it.  Over the pause the handle, the registry
\* and every actor's process, client and connected flag stay as they are
\* (idle only grows by the time that passes: last_activity is untouched);
\* between the pause and the sending of the query nothing is looked up,
\* created, connected or torn down, and the query is sent on the same handle
\* to an actor in the state the pause left.
C36_PauseLeavesActorAlone ==
    [][ /\ pc = "lock" =>
              /\ actor' = actor
              /\ registry' = registry
              /\ DOMAIN actors' = DOMAIN actors
              /\ \A h \in DOMAIN actors :
                    /\ [actors'[h] EXCEPT !.idle = 0] = [actors[h] EXCEPT !.idle = 0]
                    /\ actors'[h].idle >= actors[h].idle
                    /\ h # actor => actors'[h] = actors[h]
              /\ calls'.connect = calls.connect
              /\ calls'.cleanup = calls.cleanup
              /\ in_flight' = <<>>
        /\ (pc = "query" /\ in_flight = <<>>) =>
              /\ actor' = actor
              /\ world' = world
              /\ calls'.connect = calls.connect
              /\ calls'.cleanup = calls.cleanup
              /\ pc' = "query" => in_flight' = <<"query">>
        /\ pc' = "query" => pc \in {"lock", "query"}
      ]_vars

C36_QueryOnSameSession ==
    /\ in_flight = <<"query">>
    /\ calls.lock = 1
    /\ calls.connect = 1
    /\ actors[actor].connected
    /\ actors[actor].open
    /\ actors[actor].idle = timeout_seconds

\* C37: every TurnResult that connect() or query() returned is consumed
\* before the conversation ends: when run_conversation has its return value,
\* the latest TurnResult has been shown at a pause or used for the final
\* result.
C37_NoTurnDiscarded ==
    Ended => ~calls.unseen

\* C38: the turn count of every result or summary is the number of
\* TurnResults received in the attempt that ended the conversation.
C38_TurnCountIsTurnsReceived ==
    (Ended /\ ret # NoReturn) => ret.iterations = calls.received

\* C39: no event read from the stream before the terminal event is dropped:
\* every such event, one of a kind that is not handled included, has an
\* entry in user_messages or in context_messages.
C39_EveryEventInAChannel ==
    LET s == receive.stream
        InChannel(ch, i) == \E j \in 1..Len(ch) : ch[j].content = i
    IN \A i \in 1..receive.pos :
          s[i].kind # "result" =>
             \/ InChannel(receive.user_messages, i)
             \/ InChannel(receive.context_messages, i)

\* run i is at a connect or query that is in flight, or at the pause
Busy(j) == runs[j].pc \in {"connect", "query", "lock"}

\* a step of the RayActorError handler or of the finally clause of run i
TearsDown(i) ==
    /\ runs[i].pc \in {"except_crash", "finally"}
    /\ runs'[i] # runs[i]

\* the step destroys or disconnects the actor run j holds
Harmed(j) ==
    LET h == runs[j].actor IN
    /\ actors[h].alive
    /\ \/ ~actors'[h].alive
       \/ actors[h].connected /\ ~actors'[h].connected

\* C40 as claimed: with two invocations under one execution_id, the
\* teardown or failure handling of one never destroys or disconnects the
\* actor while the other has a connect or query in flight on it or is at
\* its human-input pause.
C40_TeardownSparesBusyPeer ==
    [][\A i \in {1, 2}, j \in {1, 2} :
          (/\ i # j
           /\ runs[i].execution_id = runs[j].execution_id
           /\ TearsDown(i)
           /\ Busy(j)) => ~Harmed(j)]_vars

\* C40 as amended: the teardown or failure handling of one invocation
\* destroys or disconnects the actor a busy other invocation holds only
\* when the two have the same execution_id; under different ids it never
\* does.
C40_TeardownHarmsOnlySameId ==
    [][\A i \in {1, 2}, j \in {1, 2} :
          (/\ i # j
           /\ TearsDown(i)
           /\ Busy(j)
           /\ Harmed(j)) => runs[i].execution_id = runs[j].execution_id]_vars

C40_PeerPausedAfterOthersTeardown ==
    /\ runs[1].execution_id # runs[2].execution_id
    /\ runs[1].pc = "done"
    /\ runs[1].actor # None
    /\ ~actors[runs[1].actor].alive
    /\ registry[runs[1].execution_id] = None
    /\ runs[2].pc = "lock"
    /\ actors[runs[2].actor].alive
    /\ actors[runs[2].actor].connected
    /\ registry[runs[2].execution_id] = runs[2].actor

====
